---- MODULE Spec2Model ----
(***************************************************************************)
(* Border rendering of lipgloss (borders.go): the Border value and its     *)
(* size getters, Style.applyBorder and renderHorizontalEdge.               *)
(*                                                                         *)
(* A Go string is modelled as the sequence of its runes; a rune is a short *)
(* TLA+ string naming it.  "W" stands for a rune of display width 2 (an    *)
(* East-Asian wide glyph), "Z" for a rune of display width 0 (a zero-width *)
(* character), "NL" for '\n', "ESC" for the ANSI marker '\x1b'.  Box        *)
(* drawing glyphs of the presets are named by their shape: "H" is the      *)
(* horizontal line, "V" the vertical line, "TL" "TR" "BL" "BR" the corners,*)
(* with a prefix r, t, d for the rounded, thick and double presets.        *)
(***************************************************************************)
EXTENDS Integers, Sequences, FiniteSets, TLC

VARIABLES
    pc,         \* position of the running call
    inBorder,   \* s.getBorderStyle(): the Border configured on the style
    inSides,    \* the four side flags of the style, each unset / true / false
    inColors,   \* the border foreground / background colours of the style
    str,        \* applyBorder's argument
    border,     \* applyBorder's local copy of the border (mutated, lines 191-246)
    hasTop, hasRight, hasBottom, hasLeft,
    lines,      \* getLines(str)
    width,      \* applyBorder's local width
    out,        \* applyBorder's strings.Builder
    lineIdx,    \* i of the loop at line 265
    leftIndex, rightIndex,
    result,     \* applyBorder's return value
    ret,        \* who called renderHorizontalEdge: "top", "bottom", "direct"
    eLeft, eMiddle, eRight, eWidth,   \* renderHorizontalEdge's parameters
    eI, eJ, eOut,                     \* renderHorizontalEdge's i, j, out
    sizeOf,     \* which size getter ran last
    sizeVal     \* what it returned

vars == <<pc, inBorder, inSides, inColors, str, border, hasTop, hasRight,
          hasBottom, hasLeft, lines, width, out, lineIdx, leftIndex,
          rightIndex, result, ret, eLeft, eMiddle, eRight, eWidth, eI, eJ,
          eOut, sizeOf, sizeVal>>

applyVars == <<inBorder, inSides, inColors, str, border, hasTop, hasRight,
               hasBottom, hasLeft, lines, width, out, lineIdx, leftIndex,
               rightIndex, result>>

edgeVars == <<ret, eLeft, eMiddle, eRight, eWidth, eI, eJ, eOut>>

sizeVars == <<sizeOf, sizeVal>>

(***************************************************************************)
(* Bounds of the model.                                                    *)
(***************************************************************************)
MaxLines == 3       \* content blocks have 1..MaxLines lines
MaxWidth == 3       \* content lines are 0..MaxWidth cells wide
MaxTarget == 5      \* direct calls of renderHorizontalEdge ask for 0..MaxTarget cells

\* The fill loop of renderHorizontalEdge is followed for at most FillCap runes:
\* more than any terminating run of the model writes.
FillCap == 2 * (MaxWidth + MaxTarget) + 4

(***************************************************************************)
(* Runes and their display width.                                          *)
(***************************************************************************)
SP == <<" ">>
NL == "NL"
ESC == "ESC"

WideRunes == {"W"}
ZeroRunes == {"Z", NL, ESC}

\* runewidth.RuneWidth
RuneWidth(r) ==
    IF r \in WideRunes THEN 2
    ELSE IF r \in ZeroRunes THEN 0
    ELSE 1

Max(a, b) == IF a > b THEN a ELSE b

RECURSIVE maxRuneWidthFrom(_, _, _)
maxRuneWidthFrom(s, k, w) ==
    IF k > Len(s) THEN w
    ELSE maxRuneWidthFrom(s, k + 1, Max(w, RuneWidth(s[k])))

maxRuneWidth(s) == maxRuneWidthFrom(s, 1, 0)

\* ansi.IsTerminator: an ASCII letter ends an ANSI sequence
Terminators == {"a", "b", "c", "m"}

IsTerminator(r) == r \in Terminators

RECURSIVE printableFrom(_, _, _, _)
printableFrom(s, k, ansi, n) ==
    IF k > Len(s) THEN n
    ELSE IF s[k] = ESC THEN printableFrom(s, k + 1, TRUE, n)
    ELSE IF ansi THEN printableFrom(s, k + 1, ~IsTerminator(s[k]), n)
    ELSE printableFrom(s, k + 1, FALSE, n + RuneWidth(s[k]))

\* ansi.PrintableRuneWidth: the cells a string takes, ANSI sequences skipped
PrintableRuneWidth(s) == printableFrom(s, 1, FALSE, 0)

getFirstRuneAsString(s) == IF s = <<>> THEN s ELSE <<s[1]>>

(***************************************************************************)
(* Colours and styleBorder.                                                *)
(***************************************************************************)
noColor == "noColor"

\* termenv's Style.Styled: CSI, the colour parameters, "m", the text, CSI 0 m
Styled(text, fg, bg) ==
    <<ESC, "[">>
    \o (IF fg # noColor THEN <<"fg", fg>> ELSE <<>>)
    \o (IF fg # noColor /\ bg # noColor THEN <<";">> ELSE <<>>)
    \o (IF bg # noColor THEN <<"bg", bg>> ELSE <<>>)
    \o <<"m">> \o text \o <<ESC, "[", "0", "m">>

styleBorder(text, fg, bg) ==
    IF fg = noColor /\ bg = noColor THEN text ELSE Styled(text, fg, bg)

(***************************************************************************)
(* Lines of a block.                                                       *)
(***************************************************************************)
RECURSIVE splitFrom(_, _, _, _)
splitFrom(s, k, cur, acc) ==
    IF k > Len(s) THEN Append(acc, cur)
    ELSE IF s[k] = NL THEN splitFrom(s, k + 1, <<>>, Append(acc, cur))
    ELSE splitFrom(s, k + 1, Append(cur, s[k]), acc)

\* strings.Split(s, "\n")
SplitLines(s) == splitFrom(s, 1, <<>>, <<>>)

RECURSIVE widestFrom(_, _, _)
widestFrom(ls, k, w) ==
    IF k > Len(ls) THEN w
    ELSE widestFrom(ls, k + 1, Max(w, PrintableRuneWidth(ls[k])))

\* getLines: the lines of a block and the width of the widest
getLines(s) == [lines |-> SplitLines(s), width |-> widestFrom(SplitLines(s), 1, 0)]

RECURSIVE JoinFrom(_, _)
JoinFrom(ls, k) ==
    IF k > Len(ls) THEN <<>>
    ELSE IF k = Len(ls) THEN ls[k]
    ELSE ls[k] \o <<NL>> \o JoinFrom(ls, k + 1)

Letters == <<"a", "b", "c">>

\* The content blocks applyBorder is given: n lines, each w cells wide (Render
\* aligns the lines of a block to one width before it applies the border).
Block(n, w) == [k \in 1..n |-> [j \in 1..w |-> Letters[((k + j) % 3) + 1]]]

Contents == {JoinFrom(Block(n, w), 1) : n \in 1..MaxLines, w \in 0..MaxWidth}

(***************************************************************************)
(* Border and its presets.                                                 *)
(***************************************************************************)
Bd(t, b, l, r, tl, tr, bl, br) ==
    [Top |-> t, Bottom |-> b, Left |-> l, Right |-> r,
     TopLeft |-> tl, TopRight |-> tr, BottomLeft |-> bl, BottomRight |-> br]

noBorder == Bd(<<>>, <<>>, <<>>, <<>>, <<>>, <<>>, <<>>, <<>>)

normalBorder ==
    Bd(<<"H">>, <<"H">>, <<"V">>, <<"V">>, <<"TL">>, <<"TR">>, <<"BL">>, <<"BR">>)

roundedBorder ==
    Bd(<<"H">>, <<"H">>, <<"V">>, <<"V">>, <<"rTL">>, <<"rTR">>, <<"rBL">>, <<"rBR">>)

thickBorder ==
    Bd(<<"tH">>, <<"tH">>, <<"tV">>, <<"tV">>, <<"tTL">>, <<"tTR">>, <<"tBL">>, <<"tBR">>)

doubleBorder ==
    Bd(<<"dH">>, <<"dH">>, <<"dV">>, <<"dV">>, <<"dTL">>, <<"dTR">>, <<"dBL">>, <<"dBR">>)

hiddenBorder == Bd(SP, SP, SP, SP, SP, SP, SP, SP)

\* Borders a caller builds itself (Border is an exported struct):
\* multi-rune patterns on every edge and two-rune corners,
patternBorder ==
    Bd(<<"H", "=">>, <<"=", "H">>, <<"V", ":">>, <<"V", ":", "!">>,
       <<"TL", "x">>, <<"TR", "x">>, <<"BL", "x">>, <<"BR", "x">>)

\* vertical edges two cells wide,
wideSideBorder ==
    Bd(<<"H">>, <<"H">>, <<"W">>, <<"W">>, <<"TL">>, <<"TR">>, <<"BL">>, <<"BR">>)

\* a top pattern mixing a two-cell and a one-cell glyph,
wideTopBorder ==
    Bd(<<"W", "H">>, <<"H">>, <<"V">>, <<"V">>, <<"TL">>, <<"TR">>, <<"BL">>, <<"BR">>)

\* a bottom made of a zero-width character,
zeroBottomBorder ==
    Bd(<<"H">>, <<"Z">>, <<"V">>, <<"V">>, <<"TL">>, <<"TR">>, <<"BL">>, <<"BR">>)

\* only the top configured.
topOnlyBorder == Bd(<<"H">>, <<>>, <<>>, <<>>, <<>>, <<>>, <<>>, <<>>)

Borders ==
    {noBorder, normalBorder, roundedBorder, thickBorder, doubleBorder,
     hiddenBorder, patternBorder, wideSideBorder, wideTopBorder,
     zeroBottomBorder, topOnlyBorder}

\* getBorderEdgeWidth(borderParts ...string)
RECURSIVE edgeWidthFrom(_, _, _)
edgeWidthFrom(parts, k, maxWidth) ==
    IF k > Len(parts) THEN maxWidth
    ELSE edgeWidthFrom(parts, k + 1, Max(maxWidth, maxRuneWidth(parts[k])))

getBorderEdgeWidth(parts) == edgeWidthFrom(parts, 1, 0)

GetTopSize(b) == getBorderEdgeWidth(<<b.TopLeft, b.Top, b.TopRight>>)

GetRightSize(b) == getBorderEdgeWidth(<<b.TopRight, b.Top, b.BottomRight>>)

GetBottomSize(b) == getBorderEdgeWidth(<<b.BottomLeft, b.Bottom, b.BottomRight>>)

GetLeftSize(b) == getBorderEdgeWidth(<<b.TopLeft, b.Left, b.TopRight>>)

(***************************************************************************)
(* The style's border settings.                                            *)
(***************************************************************************)
Sides == {"top", "right", "bottom", "left"}

Flag == {"unset", "true", "false"}

\* Style.isSet(key) and Style.getAsBool(key, default) on a side flag
isSet(sd, k) == sd[k] # "unset"

getAsBool(sd, k, default) == IF sd[k] = "unset" THEN default ELSE sd[k] = "true"

\* Style.getAsColor(key) on the foreground and background of a side
getAsColor(cl, k, ground) == cl[k][ground]

NoColors == [k \in Sides |-> [fg |-> noColor, bg |-> noColor]]

MixedColors ==
    [k \in Sides |->
        [fg |-> IF k \in {"top", "left"} THEN "1" ELSE noColor,
         bg |-> IF k \in {"left", "bottom"} THEN "2" ELSE noColor]]

ColorSets == {NoColors, MixedColors}

(***************************************************************************)
(* Style.applyBorder, lines 151-246: side resolution, the early return and *)
(* the preparation of the glyphs.                                          *)
(***************************************************************************)
\* A slip at line 177: "and" for "or" between the four set flags
DefaultAllSidesAnd(b, topSet, rightSet, bottomSet, leftSet) ==
    b # noBorder /\ ~(topSet /\ rightSet /\ bottomSet /\ leftSet)

\* line 177: a border is set and no side has been turned on or off
DefaultAllSides(b, topSet, rightSet, bottomSet, leftSet) ==
    b # noBorder /\ ~(topSet \/ rightSet \/ bottomSet \/ leftSet)

\* lines 159-162 and 177-182: whether side k is drawn
ResolveSide(b, sd, k) ==
    IF DefaultAllSides(b, isSet(sd, "top"), isSet(sd, "right"),
                       isSet(sd, "bottom"), isSet(sd, "left"))
    THEN TRUE
    ELSE getAsBool(sd, k, FALSE)

\* A slip at line 185: the test for the empty border left out
AbortsOnSidesOnly(b, hT, hR, hB, hL) == ~hT /\ ~hR /\ ~hB /\ ~hL

\* line 185: no border is set or all sides are disabled
Aborts(b, hT, hR, hB, hL) == b = noBorder \/ (~hT /\ ~hR /\ ~hB /\ ~hL)

\* lines 191-200: an enabled vertical edge without glyph gets a space
FillSides(b, hR, hL) ==
    [b EXCEPT !.Left = IF hL /\ @ = <<>> THEN SP ELSE @,
              !.Right = IF hR /\ @ = <<>> THEN SP ELSE @]

\* lines 204-215: a corner to render that is empty gets a space
FillCorners(b, hT, hR, hB, hL) ==
    [b EXCEPT !.TopLeft = IF hT /\ hL /\ @ = <<>> THEN SP ELSE @,
              !.TopRight = IF hT /\ hR /\ @ = <<>> THEN SP ELSE @,
              !.BottomLeft = IF hB /\ hL /\ @ = <<>> THEN SP ELSE @,
              !.BottomRight = IF hB /\ hR /\ @ = <<>> THEN SP ELSE @]

\* lines 219-240: the corners of a drawn horizontal edge whose vertical edge
\* is not drawn are emptied
ElideCorners(b, hT, hR, hB, hL) ==
    [b EXCEPT !.TopLeft = IF hT /\ ~hL THEN <<>> ELSE @,
              !.TopRight = IF hT /\ ~hR THEN <<>> ELSE @,
              !.BottomLeft = IF hB /\ ~hL THEN <<>> ELSE @,
              !.BottomRight = IF hB /\ ~hR THEN <<>> ELSE @]

\* lines 243-246: corners are limited to one rune
FirstRuneCorners(b) ==
    [b EXCEPT !.TopLeft = getFirstRuneAsString(@),
              !.TopRight = getFirstRuneAsString(@),
              !.BottomRight = getFirstRuneAsString(@),
              !.BottomLeft = getFirstRuneAsString(@)]

\* lines 191-246 in order
PrepareBorder(b, hT, hR, hB, hL) ==
    FirstRuneCorners(
        ElideCorners(
            FillCorners(FillSides(b, hR, hL), hT, hR, hB, hL),
            hT, hR, hB, hL))

\* lines 189-196: the content width plus the width of the left edge
BoxWidth(b, s, hL) ==
    getLines(s).width + (IF hL THEN maxRuneWidth(FillSides(b, FALSE, hL).Left) ELSE 0)

Init ==
    /\ pc = "idle"
    /\ inBorder = noBorder
    /\ inSides = [k \in Sides |-> "unset"]
    /\ inColors = NoColors
    /\ str = <<>>
    /\ border = noBorder
    /\ hasTop = FALSE /\ hasRight = FALSE /\ hasBottom = FALSE /\ hasLeft = FALSE
    /\ lines = <<>>
    /\ width = 0
    /\ out = <<>>
    /\ lineIdx = 0 /\ leftIndex = 0 /\ rightIndex = 0
    /\ result = <<>>
    /\ ret = "none"
    /\ eLeft = <<>> /\ eMiddle = <<>> /\ eRight = <<>> /\ eWidth = 0
    /\ eI = 0 /\ eJ = 0 /\ eOut = <<>>
    /\ sizeOf = "none"
    /\ sizeVal = 0

\* The frame of renderHorizontalEdge at its call, and when there is none.
CallEdge(who, l, m, r, w) ==
    /\ ret' = who
    /\ eLeft' = l /\ eMiddle' = m /\ eRight' = r /\ eWidth' = w
    /\ eI' = 0 /\ eJ' = 0 /\ eOut' = <<>>
    /\ pc' = "edge"

NoEdge ==
    /\ ret' = "none"
    /\ eLeft' = <<>> /\ eMiddle' = <<>> /\ eRight' = <<>> /\ eWidth' = 0
    /\ eI' = 0 /\ eJ' = 0 /\ eOut' = <<>>

\* applyBorder(str) on a style with border b, side flags sd and colours cl:
\* lines 151-252, up to the return at line 186 or to the rendering of the top.
ApplyBorder(b, sd, cl, s) ==
    /\ pc = "idle"
    /\ inBorder' = b /\ inSides' = sd /\ inColors' = cl /\ str' = s
    /\ LET hT == ResolveSide(b, sd, "top")
           hR == ResolveSide(b, sd, "right")
           hB == ResolveSide(b, sd, "bottom")
           hL == ResolveSide(b, sd, "left")
       IN  /\ hasTop' = hT /\ hasRight' = hR /\ hasBottom' = hB /\ hasLeft' = hL
           /\ lineIdx' = 0 /\ leftIndex' = 0 /\ rightIndex' = 0
           /\ out' = <<>>
           /\ IF Aborts(b, hT, hR, hB, hL)
              THEN /\ result' = s
                   /\ border' = b /\ lines' = <<>> /\ width' = 0
                   /\ NoEdge
                   /\ pc' = "done"
              ELSE LET nb == PrepareBorder(b, hT, hR, hB, hL)
                       w == BoxWidth(b, s, hL)
                   IN  /\ result' = <<>>
                       /\ border' = nb
                       /\ lines' = getLines(s).lines
                       /\ width' = w
                       /\ IF hT
                          THEN CallEdge("top", nb.TopLeft, nb.Top, nb.TopRight, w)
                          ELSE NoEdge /\ pc' = "sides"
    /\ UNCHANGED sizeVars

(***************************************************************************)
(* renderHorizontalEdge(left, middle, right, width), lines 300-328.        *)
(***************************************************************************)
\* A slip at line 317: the right corner's width left out of the loop's limit
FillContinuesToWidth(i, w, rightWidth) == i < w

\* line 317: the condition of the fill loop
FillContinues(i, w, rightWidth) == i < w + rightWidth

\* lines 301-316: the early return, the default middle and the loop's start
EdgeEnter ==
    /\ pc = "edge"
    /\ IF eWidth < 1
       THEN /\ eOut' = <<>>
            /\ pc' = "edgedone"
            /\ UNCHANGED <<eMiddle, eI, eJ>>
       ELSE /\ eMiddle' = IF eMiddle = <<>> THEN SP ELSE eMiddle
            /\ eI' = PrintableRuneWidth(eLeft) + PrintableRuneWidth(eRight)
            /\ eJ' = 0
            /\ eOut' = eLeft
            /\ pc' = "fill"
    /\ UNCHANGED <<ret, eLeft, eRight, eWidth>>
    /\ UNCHANGED <<applyVars, sizeVars>>

\* lines 317-324: one turn of the fill loop.  It writes runes[j], moves j on
\* and then adds the width of the rune j now points at.
EdgeStep ==
    /\ pc = "fill"
    /\ FillContinues(eI, eWidth, PrintableRuneWidth(eRight))
    /\ Len(eOut) - Len(eLeft) < FillCap
    /\ LET j1 == IF eJ + 1 >= Len(eMiddle) THEN 0 ELSE eJ + 1
       IN  /\ eOut' = Append(eOut, eMiddle[eJ + 1])
           /\ eJ' = j1
           /\ eI' = eI + PrintableRuneWidth(<<eMiddle[j1 + 1]>>)
    /\ UNCHANGED <<pc, ret, eLeft, eMiddle, eRight, eWidth>>
    /\ UNCHANGED <<applyVars, sizeVars>>

\* lines 325-327: the right corner and the return
EdgeExit ==
    /\ pc = "fill"
    /\ ~FillContinues(eI, eWidth, PrintableRuneWidth(eRight))
    /\ eOut' = eOut \o eRight
    /\ pc' = "edgedone"
    /\ UNCHANGED <<ret, eLeft, eMiddle, eRight, eWidth, eI, eJ>>
    /\ UNCHANGED <<applyVars, sizeVars>>

(***************************************************************************)
(* Style.applyBorder, lines 253-297.                                       *)
(***************************************************************************)
\* A slip at lines 269 and 278: ">" for ">=" in the wrap of the cursor
NextIndexWrapsLate(idx, n) == IF idx + 1 > n THEN 0 ELSE idx + 1

\* lines 268-271 and 277-280: the cursor of a vertical pattern moves on
NextIndex(idx, n) == IF idx + 1 >= n THEN 0 ELSE idx + 1

\* A slip at line 283: a newline after the last content line too
NeedsNewlineAlways(i, n) == i < n

\* line 283: a newline follows every content line but the last
NeedsNewline(i, n) == i < n - 1

\* lines 253-262: the styled top edge, a newline, and the cursors at 0
TopReturn ==
    /\ pc = "edgedone" /\ ret = "top"
    /\ out' = out
              \o styleBorder(eOut, getAsColor(inColors, "top", "fg"),
                             getAsColor(inColors, "top", "bg"))
              \o <<NL>>
    /\ leftIndex' = 0 /\ rightIndex' = 0 /\ lineIdx' = 0
    /\ pc' = "sides"
    /\ UNCHANGED <<inBorder, inSides, inColors, str, border, hasTop, hasRight,
                   hasBottom, hasLeft, lines, width, result>>
    /\ UNCHANGED <<edgeVars, sizeVars>>

\* lines 265-286: one content line with its left and right glyph.  Indexing
\* a pattern outside its runes panics.
SideLine ==
    /\ pc = "sides"
    /\ lineIdx < Len(lines)
    /\ IF \/ hasLeft /\ leftIndex >= Len(border.Left)
          \/ hasRight /\ rightIndex >= Len(border.Right)
       THEN /\ pc' = "panic"
            /\ UNCHANGED <<out, leftIndex, rightIndex, lineIdx>>
       ELSE /\ out' = out
                 \o (IF hasLeft
                     THEN styleBorder(<<border.Left[leftIndex + 1]>>,
                                      getAsColor(inColors, "left", "fg"),
                                      getAsColor(inColors, "left", "bg"))
                     ELSE <<>>)
                 \o lines[lineIdx + 1]
                 \o (IF hasRight
                     THEN styleBorder(<<border.Right[rightIndex + 1]>>,
                                      getAsColor(inColors, "right", "fg"),
                                      getAsColor(inColors, "right", "bg"))
                     ELSE <<>>)
                 \o (IF NeedsNewline(lineIdx, Len(lines)) THEN <<NL>> ELSE <<>>)
            /\ leftIndex' = IF hasLeft
                            THEN NextIndex(leftIndex, Len(border.Left))
                            ELSE leftIndex
            /\ rightIndex' = IF hasRight
                             THEN NextIndex(rightIndex, Len(border.Right))
                             ELSE rightIndex
            /\ lineIdx' = lineIdx + 1
            /\ pc' = "sides"
    /\ UNCHANGED <<inBorder, inSides, inColors, str, border, hasTop, hasRight,
                   hasBottom, hasLeft, lines, width, result>>
    /\ UNCHANGED <<edgeVars, sizeVars>>

\* lines 288-290 and 296: after the last line, the bottom edge is rendered,
\* or the text is returned
RenderBottom ==
    /\ pc = "sides"
    /\ lineIdx >= Len(lines)
    /\ IF hasBottom
       THEN /\ CallEdge("bottom", border.BottomLeft, border.Bottom,
                        border.BottomRight, width)
            /\ UNCHANGED result
       ELSE /\ result' = out
            /\ pc' = "done"
            /\ UNCHANGED edgeVars
    /\ UNCHANGED <<inBorder, inSides, inColors, str, border, hasTop, hasRight,
                   hasBottom, hasLeft, lines, width, out, lineIdx, leftIndex,
                   rightIndex>>
    /\ UNCHANGED sizeVars

\* lines 291-296: a newline, the styled bottom edge, and the return
BottomReturn ==
    /\ pc = "edgedone" /\ ret = "bottom"
    /\ out' = out
              \o <<NL>>
              \o styleBorder(eOut, getAsColor(inColors, "bottom", "fg"),
                             getAsColor(inColors, "bottom", "bg"))
    /\ result' = out'
    /\ pc' = "done"
    /\ UNCHANGED <<inBorder, inSides, inColors, str, border, hasTop, hasRight,
                   hasBottom, hasLeft, lines, width, lineIdx, leftIndex,
                   rightIndex>>
    /\ UNCHANGED <<edgeVars, sizeVars>>

\* The caller has taken the returned string; the call's frame is gone.
Finish ==
    /\ pc \in {"done", "edgedone", "sized"}
    /\ pc = "edgedone" => ret = "direct"
    /\ pc' = "idle"
    /\ inBorder' = noBorder
    /\ inSides' = [k \in Sides |-> "unset"]
    /\ inColors' = NoColors
    /\ str' = <<>>
    /\ border' = noBorder
    /\ hasTop' = FALSE /\ hasRight' = FALSE /\ hasBottom' = FALSE /\ hasLeft' = FALSE
    /\ lines' = <<>>
    /\ width' = 0
    /\ out' = <<>>
    /\ lineIdx' = 0 /\ leftIndex' = 0 /\ rightIndex' = 0
    /\ result' = <<>>
    /\ NoEdge
    /\ sizeOf' = "none"
    /\ sizeVal' = 0

SideFlags == [Sides -> Flag]

\* A call of applyBorder on some style and some block
Render ==
    /\ pc = "idle"
    /\ \E b \in Borders, sd \in SideFlags, cl \in ColorSets, s \in Contents :
          ApplyBorder(b, sd, cl, s)

Next ==
    \/ Render
    \/ EdgeEnter
    \/ EdgeStep
    \/ EdgeExit
    \/ TopReturn
    \/ SideLine
    \/ RenderBottom
    \/ BottomReturn
    \/ Finish

Spec == Init /\ [][Next]_vars

(***************************************************************************)
(* renderHorizontalEdge called on its own, on corners of at most one rune  *)
(* (what getFirstRuneAsString leaves) and on any target width.             *)
(***************************************************************************)
EdgeCorners == {<<>>, <<"TL">>, <<"W">>}

EdgeMiddles ==
    {<<>>, <<"H">>, <<"H", "=">>, <<"W">>, <<"W", "H">>, <<"H", "W">>,
     <<"Z">>, <<"Z", "H">>}

RenderHorizontalEdge(l, m, r, w) ==
    /\ pc = "idle"
    /\ CallEdge("direct", l, m, r, w)
    /\ UNCHANGED <<applyVars, sizeVars>>

RenderEdge ==
    /\ pc = "idle"
    /\ \E l \in EdgeCorners, m \in EdgeMiddles, r \in EdgeCorners, w \in 0..MaxTarget :
          RenderHorizontalEdge(l, m, r, w)

NextEdge ==
    \/ RenderEdge
    \/ EdgeEnter
    \/ EdgeStep
    \/ EdgeExit
    \/ Finish

SpecEdge == Init /\ [][NextEdge]_vars

(***************************************************************************)
(* The size getters of Border, on borders whose parts are empty, one cell  *)
(* wide, or a pattern with a two-cell glyph.                               *)
(***************************************************************************)
SizeParts == {<<>>, <<"H">>, <<"H", "W">>}

SizeBorders ==
    {Bd(t, b, l, r, tl, tr, bl, br) :
        t \in SizeParts, b \in SizeParts, l \in SizeParts, r \in SizeParts,
        tl \in {<<>>, <<"H">>}, tr \in {<<>>, <<"H">>},
        bl \in {<<>>, <<"H">>}, br \in {<<>>, <<"W">>}}

\* One of the four getters runs on border b.
GetSize(b, side) ==
    /\ pc = "idle"
    /\ inBorder' = b
    /\ sizeOf' = side
    /\ sizeVal' = CASE side = "top" -> GetTopSize(b)
                    [] side = "right" -> GetRightSize(b)
                    [] side = "bottom" -> GetBottomSize(b)
                    [] side = "left" -> GetLeftSize(b)
    /\ pc' = "sized"
    /\ UNCHANGED <<inSides, inColors, str, border, hasTop, hasRight, hasBottom,
                   hasLeft, lines, width, out, lineIdx, leftIndex, rightIndex,
                   result>>
    /\ UNCHANGED edgeVars

Measure ==
    /\ pc = "idle"
    /\ \E b \in SizeBorders, side \in Sides : GetSize(b, side)

NextSize ==
    \/ Measure
    \/ Finish

SpecSize == Init /\ [][NextSize]_vars

(***************************************************************************)
(* Properties.                                                             *)
(***************************************************************************)
Range(s) == {s[k] : k \in 1..Len(s)}

\* applyBorder has returned, and it drew a border
Drew ==
    /\ pc = "done"
    /\ inBorder # noBorder
    /\ hasTop \/ hasRight \/ hasBottom \/ hasLeft

\* No flag of the style was set
NoSideSet == \A k \in Sides : inSides[k] = "unset"

\* The pattern of a vertical edge, a space when none is configured
PatternOf(p) == IF p = <<>> THEN SP ELSE p

\* The glyph of a vertical edge on content line k (from 0), as it is written
LeftGlyph(k) ==
    styleBorder(<<PatternOf(inBorder.Left)[(k % Len(PatternOf(inBorder.Left))) + 1]>>,
                inColors["left"].fg, inColors["left"].bg)

RightGlyph(k) ==
    styleBorder(<<PatternOf(inBorder.Right)[(k % Len(PatternOf(inBorder.Right))) + 1]>>,
                inColors["right"].fg, inColors["right"].bg)

\* The lines of the returned text and of the content
OutLines == SplitLines(result)

InLines == SplitLines(str)

TopLines == IF hasTop THEN 1 ELSE 0

BottomLines == IF hasBottom THEN 1 ELSE 0

\* C1: applyBorder returns its input unchanged when the border is the empty
\* "no border" value, whatever the side flags, and when all four sides are
\* disabled after the default resolution, whatever the border.
C1_ReturnsInputUnchanged ==
    (/\ pc = "done"
     /\ \/ inBorder = noBorder
        \/ ~hasTop /\ ~hasRight /\ ~hasBottom /\ ~hasLeft)
    => result = str

C1_Witness ==
    /\ pc = "done"
    /\ inBorder = noBorder
    /\ inSides["top"] = "true" /\ inSides["left"] = "true"
    /\ inColors = MixedColors
    /\ Len(str) > 2
    /\ result = str

\* C2: for a non-empty border, all four sides are enabled when no side flag
\* was set; once a flag was set (to true or to false) a side is enabled
\* exactly when its flag was set to true.
C2_SideResolution ==
    (pc \in {"edge", "fill", "edgedone", "sides", "done"} /\ inBorder # noBorder)
    => /\ hasTop = (NoSideSet \/ inSides["top"] = "true")
       /\ hasRight = (NoSideSet \/ inSides["right"] = "true")
       /\ hasBottom = (NoSideSet \/ inSides["bottom"] = "true")
       /\ hasLeft = (NoSideSet \/ inSides["left"] = "true")

C2_Witness ==
    /\ pc = "done"
    /\ inBorder = normalBorder
    /\ inSides = [k \in Sides |->
                    IF k = "top" THEN "true" ELSE IF k = "right" THEN "false" ELSE "unset"]
    /\ hasTop /\ ~hasRight /\ ~hasBottom /\ ~hasLeft

\* The first rune of a configured corner
CornerGlyph(c) == getFirstRuneAsString(c)[1]

\* The four corners of the configured border are set, differ from each other
\* and occur neither in an edge pattern nor in the content, so that a corner
\* glyph in the output can only be that corner.
DistinctCorners ==
    LET cs == <<inBorder.TopLeft, inBorder.TopRight, inBorder.BottomLeft,
                inBorder.BottomRight>>
        others == Range(inBorder.Top) \cup Range(inBorder.Bottom)
                    \cup Range(inBorder.Left) \cup Range(inBorder.Right)
                    \cup Range(str) \cup {" "}
    IN  /\ \A k \in 1..4 : cs[k] # <<>> /\ CornerGlyph(cs[k]) \notin others
        /\ \A k, j \in 1..4 : k # j => CornerGlyph(cs[k]) # CornerGlyph(cs[j])

\* C3: for every non-empty border, every content block (one of width 0
\* included) and every combination of resolved side flags, each corner glyph
\* appears in the output exactly when both its adjoining edges are enabled.
C3_CornerPresence ==
    (Drew /\ DistinctCorners)
    => /\ (CornerGlyph(inBorder.TopLeft) \in Range(result)) = (hasTop /\ hasLeft)
       /\ (CornerGlyph(inBorder.TopRight) \in Range(result)) = (hasTop /\ hasRight)
       /\ (CornerGlyph(inBorder.BottomLeft) \in Range(result)) = (hasBottom /\ hasLeft)
       /\ (CornerGlyph(inBorder.BottomRight) \in Range(result)) = (hasBottom /\ hasRight)

\* C5: when a border is drawn, every line of the output has the same display
\* width: the content width, plus the cell width of the Left edge if left is
\* enabled, plus the cell width of the Right edge if right is enabled.
C5_BoxWidth ==
    Drew
    => \A k \in 1..Len(OutLines) :
          PrintableRuneWidth(OutLines[k]) =
              getLines(str).width
              + (IF hasLeft THEN maxRuneWidth(PatternOf(inBorder.Left)) ELSE 0)
              + (IF hasRight THEN maxRuneWidth(PatternOf(inBorder.Right)) ELSE 0)

\* C7: around n content lines the output has (1 if top) + n + (1 if bottom)
\* lines, separated by single newlines with none at the end, and its n middle
\* lines are the content lines, verbatim and in order, each with nothing but
\* a left glyph before it (if left is enabled) and a right glyph after it
\* (if right is enabled).
C7_LineStructure ==
    Drew
    => /\ Len(OutLines) = TopLines + Len(InLines) + BottomLines
       /\ \A k \in 1..Len(InLines) :
             \E pre \in (IF hasLeft
                         THEN {styleBorder(<<g>>, inColors["left"].fg, inColors["left"].bg) :
                                  g \in Range(PatternOf(inBorder.Left))}
                         ELSE {<<>>}),
                suf \in (IF hasRight
                         THEN {styleBorder(<<g>>, inColors["right"].fg, inColors["right"].bg) :
                                  g \in Range(PatternOf(inBorder.Right))}
                         ELSE {<<>>}) :
                OutLines[TopLines + k] = pre \o InLines[k] \o suf

C7_Witness ==
    /\ Drew
    /\ inBorder = patternBorder
    /\ hasTop /\ hasRight /\ hasBottom /\ hasLeft
    /\ inColors = MixedColors
    /\ Len(InLines) = 3
    /\ Len(OutLines) = 5
    /\ Len(InLines[1]) = 2

\* C8: content line k (from 0) gets rune k mod len(Left) of the Left pattern
\* before it and rune k mod len(Right) of the Right pattern after it; the two
\* cursors start at 0 on every call, advance by one per line independently,
\* and never index outside their pattern, also when an empty Left or Right
\* was replaced by a single space.
C8_PatternCycling ==
    /\ pc # "panic"
    /\ pc = "sides"
       => /\ hasLeft => /\ leftIndex < Len(border.Left)
                        /\ leftIndex = lineIdx % Len(PatternOf(inBorder.Left))
          /\ hasRight => /\ rightIndex < Len(border.Right)
                         /\ rightIndex = lineIdx % Len(PatternOf(inBorder.Right))
    /\ Drew
       => \A k \in 1..Len(InLines) :
             LET ln == OutLines[TopLines + k]
                 l == IF hasLeft THEN LeftGlyph(k - 1) ELSE <<>>
                 r == IF hasRight THEN RightGlyph(k - 1) ELSE <<>>
             IN  /\ Len(ln) >= Len(l) + Len(r)
                 /\ SubSeq(ln, 1, Len(l)) = l
                 /\ SubSeq(ln, Len(ln) - Len(r) + 1, Len(ln)) = r

C8_Witness ==
    /\ Drew
    /\ inBorder = patternBorder
    /\ hasLeft /\ hasRight
    /\ Len(InLines) = 3
    /\ leftIndex = 1 /\ rightIndex = 0
    /\ OutLines[TopLines + 3] = <<"V">> \o InLines[3] \o <<"!">>

\* renderHorizontalEdge, called on its own, has returned
EdgeReturned == pc = "edgedone" /\ ret = "direct"

LeftWidth == PrintableRuneWidth(eLeft)

RightWidth == PrintableRuneWidth(eRight)

\* The middle pattern holds one-cell glyphs only (or nothing), so that the
\* loop's count of cells is the count of the cells it has written.
OneCellMiddle == \A g \in Range(eMiddle) : RuneWidth(g) = 1

C9_NoOvershoot ==
    (pc = "fill" /\ ret = "direct" /\ eWidth >= LeftWidth)
    => LET written == PrintableRuneWidth(eOut) - LeftWidth
           cellsLeft == eWidth - LeftWidth
       IN  written <= cellsLeft

\* C10: renderHorizontalEdge ends after a number of fill steps bounded by
\* the target width, also when the middle pattern holds glyphs of display
\* width 0.
C10_FillStepsBounded ==
    (pc = "fill" /\ ret = "direct") => Len(eOut) - Len(eLeft) <= eWidth

\* C6: each size getter returns the largest display width of a rune among
\* the edge's own glyphs and its two adjoining corners (right: TopRight,
\* Right, BottomRight; left: TopLeft, Left, BottomLeft), 0 when they are empty.
C6_EdgeWidth ==
    pc = "sized"
    => sizeVal =
         CASE sizeOf = "top" ->
                Max(maxRuneWidth(inBorder.TopLeft),
                    Max(maxRuneWidth(inBorder.Top), maxRuneWidth(inBorder.TopRight)))
           [] sizeOf = "right" ->
                Max(maxRuneWidth(inBorder.TopRight),
                    Max(maxRuneWidth(inBorder.Right), maxRuneWidth(inBorder.BottomRight)))
           [] sizeOf = "bottom" ->
                Max(maxRuneWidth(inBorder.BottomLeft),
                    Max(maxRuneWidth(inBorder.Bottom), maxRuneWidth(inBorder.BottomRight)))
           [] sizeOf = "left" ->
                Max(maxRuneWidth(inBorder.TopLeft),
                    Max(maxRuneWidth(inBorder.Left), maxRuneWidth(inBorder.BottomLeft)))

====
